---- MODULE Spec2Model ----
(***************************************************************************)
(* A model of ZeroTier One's Peer (node/Peer.cpp): the per-peer path table *)
(* (_paths, _numPaths), the receive handler Peer::received() run by two    *)
(* receive threads and interleaved at the granularity of its paths_m       *)
(* critical sections and of its unlocked timestamp accesses, the timer     *)
(* operations clean(), resetWithinScope(), doPingAndKeepalive() and        *)
(* sendDirect(), and the direct-path pusher _pushDirectPaths().            *)
(*                                                                         *)
(* Times are uint64 milliseconds in the code. Here they are small numbers  *)
(* and uint64 subtraction wraps modulo WrapModulus instead of 2^64; the    *)
(* period constants of Constants.hpp are scaled down with them.            *)
(***************************************************************************)
EXTENDS Integers, Sequences, FiniteSets, TLC

\* ------------------------------------------------------------- bounds ----
\* The node clock runs from 0 to MaxClock.
MaxClock == 2
\* Stands for 2^64: uint64 arithmetic wraps modulo this number.
WrapModulus == 64
\* The longest run of IPv6 endpoints in a list the pusher packs.
MaxRun == 51

\* -------------------------------------------------------- constants ----
\* Constants.hpp and Packet.hpp set these (16 paths, periods of minutes in
\* milliseconds, 8 predictions). Paths, periods and predictions are scaled
\* down to the model's table, clock and endpoint lists.
ZT_MAX_PEER_NETWORK_PATHS == 2
ZT_PEER_PING_PERIOD == 1
ZT_PEER_PATH_EXPIRATION == 1
ZT_DIRECT_PATH_PUSH_INTERVAL == 2
ZT_MULTICAST_LIKE_EXPIRE == 6
ZT_PUSH_DIRECT_PATHS_MAX_PER_SCOPE_AND_FAMILY == 2
ZT_PUSH_DIRECT_PATHS_FLAG_CLUSTER_REDIRECT == 2
\* Packet header length: the payload of a packet starts at this index.
ZT_PACKET_IDX_PAYLOAD == 28
\* Size cap of one PUSH_DIRECT_PATHS packet in _pushDirectPaths().
PushPacketCap == 1200

\* ------------------------------------------------------ value domains ----
AF_INET == 2
AF_INET6 == 10
\* Any family that is neither of the two.
AF_OTHER == 0

\* Remote addresses a packet can arrive from, with family and ip scope.
Remotes == {"r4a", "r4b", "r4c", "r6a"}
LocalAddresses == {"l1", "l2"}

ss_family(a) == IF a \in {"r6a", "c6"} THEN AF_INET6
                ELSE IF a = "cx" THEN AF_OTHER ELSE AF_INET

IpScopes == {"GLOBAL", "PRIVATE"}
ipScope(a) == IF a = "r4b" THEN "PRIVATE" ELSE "GLOBAL"

\* Endpoints the node and the self-awareness module can report.
Candidates == {"c4", "c6", "cx"}

Verbs == {"OK", "ERROR", "RENDEZVOUS", "PUSH_DIRECT_PATHS",
          "FRAME", "EXT_FRAME", "MULTICAST_FRAME", "ECHO"}

Threads == {1, 2}

NoPath == [local |-> "none", remote |-> "none"]
PathOf(local, remote) == [local |-> local, remote |-> remote]
Paths == {PathOf(l, r) : l \in LocalAddresses, r \in Remotes}

Slots == 0 .. (ZT_MAX_PEER_NETWORK_PATHS - 1)
Times == 0 .. MaxClock

\* uint64 subtraction
U64Sub(a, b) == ((a - b) + WrapModulus) % WrapModulus

VARIABLES
  clock,                   \* RR->node->now()
  cluster,                 \* RR->cluster is set (ZT_ENABLE_CLUSTER build)
  remoteVersion,           \* <<_vProto, _vMajor, _vMinor, _vRevision>>
  directPaths,             \* RR->node->directPaths()
  symmetricNatPredictions, \* RR->sa->getSymmetricNatPredictions()
  _paths,                  \* Peer::_paths[ZT_MAX_PEER_NETWORK_PATHS]
  _numPaths,
  _lastReceive,
  _lastUnicastFrame,
  _lastMulticastFrame,
  _lastAnnouncedTo,
  _lastDirectPathPushSent,
  rx,                      \* per receive thread: position in received() and its locals
  out,                     \* the calls into other subsystems made by the last step
  ret                      \* <<v>> if the last step returned v, else <<>>

vars == <<clock, cluster, remoteVersion, directPaths, symmetricNatPredictions,
          _paths, _numPaths, _lastReceive, _lastUnicastFrame, _lastMulticastFrame,
          _lastAnnouncedTo, _lastDirectPathPushSent, rx, out, ret>>

envVars == <<cluster, remoteVersion, directPaths, symmetricNatPredictions>>
stampVars == <<_lastReceive, _lastUnicastFrame, _lastMulticastFrame, _lastAnnouncedTo>>
tableVars == <<_paths, _numPaths>>

\* A slot as the Peer constructor leaves it.
EmptySlot == [path |-> NoPath, lastReceive |-> 0, localClusterSuboptimal |-> FALSE]

\* Locals of a thread that is not inside received().
IdleRx == [pc |-> "idle", now |-> 0, path |-> NoPath, hops |-> 0, verb |-> "NOP",
           trustEstablished |-> FALSE, suboptimalPath |-> FALSE,
           pathIsConfirmed |-> FALSE]

\* One call into another subsystem: a packet handed to Path::send or to
\* Node::putPacket, or a call of the cluster or of a network. locked says
\* whether the caller holds _paths_m.
Call(verb, via, locked, path, body) ==
  [verb |-> verb, via |-> via, locked |-> locked,
   local |-> path.local, remote |-> path.remote, body |-> body]

\* Peer::sendHELLO(): one HELLO through RR->node->putPacket().
sendHELLO(localAddr, atAddress, locked) ==
  Call("HELLO", "putPacket", locked, PathOf(localAddr, atAddress), <<>>)

\* Peer::_pathScore(p), declared in Peer.hpp: newer lastReceive scores higher,
\* a slot flagged localClusterSuboptimal scores lower.
_pathScore(paths, p) ==
  paths[p].lastReceive
    + (IF paths[p].localClusterSuboptimal THEN 0 ELSE ZT_PEER_PING_PERIOD)

\* The versions a peer can report (set by Peer::setRemoteVersion in Peer.hpp).
RemoteVersions == {<<0, 0, 0, 0>>, <<4, 1, 0, 0>>, <<5, 1, 1, 0>>, <<5, 1, 2, 0>>}

\* The state after construction (line 35-57), in a node whose cluster
\* context, direct paths and predictions are among the given ones.
InitIn(clusters, directPathLists, predictionLists) ==
  /\ clock = 0
  /\ cluster \in clusters
  /\ remoteVersion = <<0, 0, 0, 0>>
  /\ directPaths \in directPathLists
  /\ symmetricNatPredictions \in predictionLists
  /\ _paths = [p \in Slots |-> EmptySlot]
  /\ _numPaths = 0
  /\ _lastReceive = 0
  /\ _lastUnicastFrame = 0
  /\ _lastMulticastFrame = 0
  /\ _lastAnnouncedTo = 0
  /\ _lastDirectPathPushSent = 0
  /\ rx = [t \in Threads |-> IdleRx]
  /\ out = <<>>
  /\ ret = <<>>

\* The node clock advances.
Tick ==
  /\ clock < MaxClock
  /\ clock' = clock + 1
  /\ out' = <<>>
  /\ ret' = <<>>
  /\ UNCHANGED <<envVars, tableVars, stampVars, _lastDirectPathPushSent, rx>>

\* Peer::setRemoteVersion(): the peer's HELLO or OK(HELLO) was processed.
setRemoteVersion(v) ==
  /\ remoteVersion' = v
  /\ out' = <<>>
  /\ ret' = <<>>
  /\ UNCHANGED <<clock, cluster, directPaths, symmetricNatPredictions, tableVars,
                 stampVars, _lastDirectPathPushSent, rx>>

\* ------------------------------------------------- Peer::received() ----
\* What one step reports: the calls it made and the value it returned.
Observe(calls, value) == out' = calls /\ ret' = value

\* Line 59-68: a receive thread enters received() and reads the clock.
receivedEnter(t, path, hops, verb, trustEstablished) ==
  /\ rx[t].pc = "idle"
  /\ rx' = [rx EXCEPT ![t] = [IdleRx EXCEPT !.pc = "stamp", !.now = clock,
                                           !.path = path, !.hops = hops, !.verb = verb,
                                           !.trustEstablished = trustEstablished]]
  /\ Observe(<<>>, <<>>)
  /\ UNCHANGED <<clock, envVars, tableVars, stampVars, _lastDirectPathPushSent>>

\* The redirect packet of line 77-110 for a better endpoint redirectTo.
RedirectPacket(path, redirectTo) ==
  IF remoteVersion[1] >= 5
    THEN Call("PUSH_DIRECT_PATHS", "path->send", FALSE, path,
              [count |-> 1,
               records |-> <<[flags |-> ZT_PUSH_DIRECT_PATHS_FLAG_CLUSTER_REDIRECT,
                              addressType |-> IF ss_family(redirectTo) = AF_INET THEN 4 ELSE 6,
                              length |-> IF ss_family(redirectTo) = AF_INET THEN 6 ELSE 18,
                              address |-> redirectTo]>>])
    ELSE Call("RENDEZVOUS", "path->send", FALSE, path,
              [count |-> 1,
               records |-> <<[flags |-> 0,
                              addressType |-> IF ss_family(redirectTo) = AF_INET THEN 4 ELSE 6,
                              length |-> IF ss_family(redirectTo) = AF_INET THEN 4 ELSE 16,
                              address |-> redirectTo]>>])

\* AfterStamp for a handler that confirms and learns whatever the hops.
AfterStamp_IgnoreHops(hops, trustEstablished) == "confirm"

\* Line 122 and 196: where received() goes after the timestamps.
AfterStamp(hops, trustEstablished) ==
  IF hops = 0 THEN "confirm"
  ELSE IF trustEstablished THEN "pushCheck" ELSE "announce"

\* Redirects without the exception of the four verbs.
Redirects_AnyVerb(clustered, hops, verb, better) == clustered /\ hops = 0 /\ better

\* The tests of line 72 and 76: the packet is answered with a redirect.
Redirects(clustered, hops, verb, better) ==
  /\ clustered
  /\ hops = 0
  /\ verb \notin {"OK", "ERROR", "RENDEZVOUS", "PUSH_DIRECT_PATHS"}
  /\ better

\* Line 70-120: the cluster redirect, then the peer-level timestamps.
\* better and redirectTo are the result of cluster->findBetterEndpoint().
receivedStamp(t, better, redirectTo) ==
  LET me == rx[t]
      redirect == Redirects(cluster, me.hops, me.verb, better)
  IN /\ me.pc = "stamp"
     /\ _lastReceive' = me.now
     /\ _lastUnicastFrame' = IF me.verb \in {"FRAME", "EXT_FRAME"}
                               THEN me.now ELSE _lastUnicastFrame
     /\ _lastMulticastFrame' = IF me.verb \notin {"FRAME", "EXT_FRAME"}
                                    /\ me.verb = "MULTICAST_FRAME"
                                 THEN me.now ELSE _lastMulticastFrame
     /\ rx' = [rx EXCEPT ![t].suboptimalPath = redirect,
                         ![t].pc = AfterStamp(me.hops, me.trustEstablished)]
     /\ Observe(IF redirect THEN <<RedirectPacket(me.path, redirectTo)>> ELSE <<>>, <<>>)
     /\ UNCHANGED <<clock, envVars, tableVars, _lastAnnouncedTo, _lastDirectPathPushSent>>

\* The slots a confirm scan for address a stops at (line 126-127).
MatchingSlots(paths, np, a) == {p \in Slots : p < np /\ paths[p].path.remote = a}

LowestOf(S) == CHOOSE p \in S : \A q \in S : p <= q

\* ConfirmedSlot without the assignment of the packet's Path.
ConfirmedSlot_KeepPath(old, path, now, suboptimalPath) ==
  [old EXCEPT !.lastReceive = now, !.localClusterSuboptimal = suboptimalPath]

\* Line 127-132: what the confirm scan writes to the slot it stops at.
ConfirmedSlot(old, path, now, suboptimalPath) ==
  [path |-> path, lastReceive |-> now, localClusterSuboptimal |-> suboptimalPath]

\* Line 124-137: the confirm scan, one critical section of _paths_m.
receivedConfirm(t) ==
  LET me == rx[t]
      hits == MatchingSlots(_paths, _numPaths, me.path.remote)
  IN /\ me.pc = "confirm"
     /\ IF hits # {}
          THEN /\ _paths' = [_paths EXCEPT ![LowestOf(hits)] =
                               ConfirmedSlot(_paths[LowestOf(hits)], me.path, me.now,
                                             me.suboptimalPath)]
               /\ rx' = [rx EXCEPT ![t].pathIsConfirmed = TRUE, ![t].pc = "announce"]
          ELSE /\ _paths' = _paths
               /\ rx' = [rx EXCEPT ![t].pc = "learn"]
     /\ Observe(<<>>, <<>>)
     /\ UNCHANGED <<clock, envVars, _numPaths, stampVars, _lastDirectPathPushSent>>

\* Line 151-159 and 165-171: scan slots p, p+1, .. for a score below worstScore.
\* family is the family the scan is restricted to, or -1 for any.
RECURSIVE WorstScan(_, _, _, _, _, _)
WorstScan(paths, np, family, p, worstSlot, worstScore) ==
  IF p >= np THEN <<worstSlot, worstScore>>
  ELSE IF (family = -1 \/ ss_family(paths[p].path.remote) = family)
            /\ _pathScore(paths, p) < worstScore
         THEN WorstScan(paths, np, family, p + 1, p, _pathScore(paths, p))
         ELSE WorstScan(paths, np, family, p + 1, worstSlot, worstScore)

\* Line 144-173: the slot a new path is put in.
LearnSlot(paths, np, path) ==
  IF np < ZT_MAX_PEER_NETWORK_PATHS THEN np
  ELSE LET same == WorstScan(paths, np, ss_family(path.remote), 0, -1, WrapModulus - 1)
       IN IF same[1] >= 0 THEN same[1]
          ELSE WorstScan(paths, np, -1, 0, ZT_MAX_PEER_NETWORK_PATHS - 1, same[2])[1]

\* UsesEcho without the exception for version 1.1.0.
UsesEcho_AnyVersion(v) == v[1] >= 5

\* The version test of line 185.
UsesEcho(v) == v[1] >= 5 /\ ~(v[2] = 1 /\ v[3] = 1 /\ v[4] = 0)

\* Line 139-195: learn the path or probe it. permitted is the answer of
\* node->shouldUsePathForZeroTierTraffic(). Line 178 indexes _paths with p, a
\* name no enclosing scope declares: flagSlot is the slot that write lands on.
receivedLearn(t, permitted, flagSlot) ==
  LET me == rx[t]
      slot == LearnSlot(_paths, _numPaths, me.path)
      installed == [_paths EXCEPT ![slot].lastReceive = me.now, ![slot].path = me.path]
  IN /\ me.pc = "learn"
     /\ IF ~me.pathIsConfirmed /\ permitted
          THEN IF me.verb = "OK"
                 THEN /\ _numPaths' = IF _numPaths < ZT_MAX_PEER_NETWORK_PATHS
                                        THEN _numPaths + 1 ELSE _numPaths
                      /\ _paths' = [installed EXCEPT
                                      ![flagSlot].localClusterSuboptimal = me.suboptimalPath]
                      /\ Observe(IF cluster
                                   THEN <<Call("HAVE_PEER", "cluster->broadcastHavePeer",
                                               TRUE, NoPath, <<>>)>>
                                   ELSE <<>>, <<>>)
                 ELSE /\ UNCHANGED tableVars
                      /\ Observe(IF UsesEcho(remoteVersion)
                                   THEN <<Call("ECHO", "path->send", FALSE, me.path, <<>>)>>
                                   ELSE <<sendHELLO(me.path.local, me.path.remote, FALSE)>>,
                                 <<>>)
          ELSE /\ UNCHANGED tableVars
               /\ Observe(<<>>, <<>>)
     /\ rx' = [rx EXCEPT ![t].pc = "announce"]
     /\ UNCHANGED <<clock, envVars, stampVars, _lastDirectPathPushSent>>

\* ------------------------------------------- Peer::_pushDirectPaths() ----
\* Contains for a sampler that does not look for duplicates.
Contains_Never(seq, a) == FALSE

\* The std::find of line 420.
Contains(seq, a) == \E i \in 1 .. Len(seq) : seq[i] = a

\* Line 418-425: the sampler. draws[i+1] is prng() % sym.size() of round i.
RECURSIVE SamplePredictions(_, _, _, _, _)
SamplePredictions(sym, draws, i, added, pathsToPush) ==
  IF i >= Len(sym) THEN pathsToPush
  ELSE LET tmp == sym[draws[i + 1] + 1]
       IN IF ~Contains(pathsToPush, tmp)
            THEN IF added + 1 >= ZT_PUSH_DIRECT_PATHS_MAX_PER_SCOPE_AND_FAMILY
                   THEN Append(pathsToPush, tmp)
                   ELSE SamplePredictions(sym, draws, i + 1, added + 1,
                                          Append(pathsToPush, tmp))
            ELSE SamplePredictions(sym, draws, i + 1, added, pathsToPush)

\* Line 411-425: the node's direct paths, then the sampled predictions.
GatherPathsToPush(dps, sym, draws) == SamplePredictions(sym, draws, 0, 0, dps)

\* The record of line 460-465 for one endpoint.
PushRecord(a) ==
  [flags |-> 0,
   addressType |-> IF ss_family(a) = AF_INET THEN 4 ELSE 6,
   length |-> IF ss_family(a) = AF_INET THEN 6 ELSE 18,
   address |-> a]

\* RecordSize that takes every record for an IPv4 one.
RecordSize_AllShort(a) == 11

\* Bytes line 460-465 append: flags, extensions, type, length, ip, port.
RecordSize(a) == IF ss_family(a) = AF_INET THEN 11 ELSE 23

\* The switch of line 449-458: endpoints of other families are passed over.
IsPushed(a) == ss_family(a) \in {AF_INET, AF_INET6}

\* The bytes the records of the endpoints in as add up to, seq[from .. to]
\* being the endpoints looked at.
RECURSIVE BytesAppended(_, _, _, _)
BytesAppended(as, seq, from, to) ==
  IF as = {} THEN 0
  ELSE LET a == CHOOSE x \in as : TRUE
       IN RecordSize(a) * Cardinality({i \in from .. to : seq[i] = a})
            + BytesAppended(as \ {a}, seq, from, to)

\* outp.size() when the inner loop, begun at position p with size bytes,
\* has passed the endpoints before position q.
SizeBefore(pathsToPush, p, q, size) ==
  size + BytesAppended({pathsToPush[i] : i \in {j \in p .. (q - 1) : IsPushed(pathsToPush[j])}},
                       pathsToPush, p, q - 1)

\* Line 447-469: fill one packet from position p on; size is outp.size().
\* The loop stops at the first position at which its condition fails. The
\* result is <<position reached, records of the packet>>.
FillPacket(pathsToPush, p, size, records) ==
  LET stops == {q \in p .. (Len(pathsToPush) + 1) :
                  \/ q > Len(pathsToPush)
                  \/ ~((SizeBefore(pathsToPush, p, q, size) + 24) < PushPacketCap)}
      stop == CHOOSE q \in stops : \A r \in stops : q <= r
      passed == SelectSeq(SubSeq(pathsToPush, p, stop - 1), IsPushed)
  IN <<stop, records \o [i \in 1 .. Len(passed) |-> PushRecord(passed[i])]>>

\* Line 441-476: the packets sent for pathsToPush from position p on.
RECURSIVE PackPathsToPush(_, _, _)
PackPathsToPush(path, pathsToPush, p) ==
  IF p > Len(pathsToPush) THEN <<>>
  ELSE LET filled == FillPacket(pathsToPush, p, ZT_PACKET_IDX_PAYLOAD + 2, <<>>)
           packet == Call("PUSH_DIRECT_PATHS", "path->send", FALSE, path,
                          [count |-> Len(filled[2]), records |-> filled[2]])
       IN (IF Len(filled[2]) > 0 THEN <<packet>> ELSE <<>>)
            \o PackPathsToPush(path, pathsToPush, filled[1])

\* The check of line 407 against a value read from _lastDirectPathPushSent.
PushTooSoon(now, lastSent) == U64Sub(now, lastSent) < ZT_DIRECT_PATH_PUSH_INTERVAL

\* PushRejected without the cluster test of line 403.
PushRejected_NoClusterTest(clustered, now, lastSent) == PushTooSoon(now, lastSent)

\* Line 401-408: whether _pushDirectPaths() returns false at once.
PushRejected(clustered, now, lastSent) == clustered \/ PushTooSoon(now, lastSent)

\* Line 196-198 and 401-408: a relayed packet of a trusted peer calls
\* _pushDirectPaths(), which reads _lastDirectPathPushSent without a lock.
receivedPushCheck(t) ==
  LET me == rx[t]
      rejected == PushRejected(cluster, me.now, _lastDirectPathPushSent)
  IN /\ me.pc = "pushCheck"
     /\ rx' = [rx EXCEPT ![t].pc = IF rejected THEN "announce" ELSE "pushSend"]
     /\ Observe(<<>>, IF rejected THEN <<FALSE>> ELSE <<>>)
     /\ UNCHANGED <<clock, envVars, tableVars, stampVars, _lastDirectPathPushSent>>

\* The sequences of prng() % n results of n rounds.
Draws(n) == [1 .. n -> 0 .. (n - 1)]

\* Line 409-478: the accepted push writes the timestamp, gathers and sends.
receivedPushSend(t, draws) ==
  LET me == rx[t]
      pathsToPush == GatherPathsToPush(directPaths, symmetricNatPredictions, draws)
  IN /\ me.pc = "pushSend"
     /\ _lastDirectPathPushSent' = me.now
     /\ rx' = [rx EXCEPT ![t].pc = "announce"]
     /\ IF pathsToPush = <<>>
          THEN Observe(<<>>, <<FALSE>>)
          ELSE Observe(PackPathsToPush(me.path, pathsToPush, 1), <<TRUE>>)
     /\ UNCHANGED <<clock, envVars, tableVars, stampVars>>

\* Line 201-207: the multicast announcement, then received() returns.
receivedAnnounce(t) ==
  LET me == rx[t]
      due == U64Sub(me.now, _lastAnnouncedTo) >= ((ZT_MULTICAST_LIKE_EXPIRE \div 2) - 1)
  IN /\ me.pc = "announce"
     /\ _lastAnnouncedTo' = IF due THEN me.now ELSE _lastAnnouncedTo
     /\ rx' = [rx EXCEPT ![t] = IdleRx]
     /\ Observe(IF due
                  THEN <<Call("MULTICAST_LIKE", "network->tryAnnounceMulticastGroupsTo",
                              FALSE, NoPath, <<>>)>>
                  ELSE <<>>, <<>>)
     /\ UNCHANGED <<clock, envVars, tableVars, _lastReceive, _lastUnicastFrame,
                    _lastMulticastFrame, _lastDirectPathPushSent>>

\* ------------------------------------------------ timer operations ----
\* The selection loop of sendDirect() and doPingAndKeepalive(): the last
\* eligible slot whose score is >= every eligible score before it, -1 if none.
RECURSIVE BestScan(_, _, _, _, _, _)
BestScan(paths, np, eligible, p, bestp, best) ==
  IF p >= np THEN bestp
  ELSE IF p \in eligible /\ _pathScore(paths, p) >= best
         THEN BestScan(paths, np, eligible, p + 1, p, _pathScore(paths, p))
         ELSE BestScan(paths, np, eligible, p + 1, bestp, best)

\* ZeroFrom without the release of the references.
ZeroFrom_NoRelease(paths, y) == paths

\* Line 342-343 and 395-396: release the Path references from slot y on.
ZeroFrom(paths, y) ==
  [p \in Slots |-> IF p >= y THEN [paths[p] EXCEPT !.path = NoPath] ELSE paths[p]]

\* Retained with < for <=.
Retained_Strict(now, lastReceive) == U64Sub(now, lastReceive) < ZT_PEER_PATH_EXPIRATION

\* The test of line 382.
Retained(now, lastReceive) == U64Sub(now, lastReceive) <= ZT_PEER_PATH_EXPIRATION

\* Line 381-393: the compaction loop of clean(); the result is <<paths, y>>.
RECURSIVE cleanLoop(_, _, _, _, _)
cleanLoop(paths, np, now, x, y) ==
  IF x >= np THEN <<paths, y>>
  ELSE IF Retained(now, paths[x].lastReceive)
         THEN cleanLoop(IF y # x THEN [paths EXCEPT ![y] = paths[x]] ELSE paths,
                        np, now, x + 1, y + 1)
         ELSE cleanLoop(paths, np, now, x + 1, y)

\* Peer::clean(now), one critical section.
clean(now) ==
  LET r == cleanLoop(_paths, _numPaths, now, 0, 0)
  IN /\ _numPaths' = r[2]
     /\ _paths' = ZeroFrom(r[1], r[2])
     /\ Observe(<<>>, <<>>)
     /\ UNCHANGED <<clock, envVars, stampVars, _lastDirectPathPushSent, rx>>

\* Line 324-340: the loop of resetWithinScope(); the result is
\* <<paths, y, the HELLOs sent>>.
RECURSIVE resetLoop(_, _, _, _, _, _)
resetLoop(paths, np, scope, x, y, hellos) ==
  IF x >= np THEN <<paths, y, hellos>>
  ELSE IF ipScope(paths[x].path.remote) = scope
         THEN resetLoop(paths, np, scope, x + 1, y,
                        Append(hellos, sendHELLO(paths[x].path.local,
                                                 paths[x].path.remote, TRUE)))
         ELSE resetLoop(IF x # y THEN [paths EXCEPT ![y] = paths[x]] ELSE paths,
                        np, scope, x + 1, y + 1, hellos)

\* ResetResult for a call that reports whether there was a path at all.
ResetResult_HadPaths(np, y) == np > 0

\* Line 344: the value resetWithinScope() returns, y being the new _numPaths.
ResetResult(np, y) == y < np

\* Peer::resetWithinScope(scope, now), one critical section.
resetWithinScope(scope, now) ==
  LET r == resetLoop(_paths, _numPaths, scope, 0, 0, <<>>)
  IN /\ _numPaths' = r[2]
     /\ _paths' = ZeroFrom(r[1], r[2])
     /\ Observe(r[3], <<ResetResult(_numPaths, r[2])>>)
     /\ UNCHANGED <<clock, envVars, stampVars, _lastDirectPathPushSent, rx>>

\* The slots the family filter of line 286 lets through.
FamilySlots(paths, inetAddressFamily) ==
  {p \in Slots : inetAddressFamily < 0
                   \/ ss_family(paths[p].path.remote) = inetAddressFamily}

\* PingDue with > for >=.
PingDue_Late(now, lastReceive) == U64Sub(now, lastReceive) > ZT_PEER_PING_PERIOD

\* The test of line 296.
PingDue(now, lastReceive) == U64Sub(now, lastReceive) >= ZT_PEER_PING_PERIOD

\* The payload of line 299-300 (its bytes are not modelled).
NatKeepalive(path) == Call("NAT_KEEPALIVE", "path->send", TRUE, path, <<>>)

\* Peer::doPingAndKeepalive(now, inetAddressFamily), one critical section.
\* needsHeartbeat is the answer of the chosen Path's needsHeartbeat(now).
doPingAndKeepalive(now, inetAddressFamily, needsHeartbeat) ==
  LET bestp == BestScan(_paths, _numPaths, FamilySlots(_paths, inetAddressFamily), 0, -1, 0)
  IN /\ UNCHANGED <<clock, envVars, tableVars, stampVars, _lastDirectPathPushSent, rx>>
     /\ IF bestp >= 0
          THEN IF PingDue(now, _paths[bestp].lastReceive)
                 THEN Observe(<<sendHELLO(_paths[bestp].path.local,
                                          _paths[bestp].path.remote, TRUE)>>, <<TRUE>>)
                 ELSE IF needsHeartbeat
                        THEN Observe(<<NatKeepalive(_paths[bestp].path)>>, <<TRUE>>)
                        ELSE Observe(<<>>, <<TRUE>>)
          ELSE Observe(<<>>, <<FALSE>>)

\* Eligible without forceEvenIfDead.
Eligible_AliveOnly(forceEvenIfDead, alive) == alive

\* The test of line 225: the slots sendDirect() may choose from.
Eligible(forceEvenIfDead, alive) == IF forceEvenIfDead THEN Slots ELSE alive

\* Peer::sendDirect(data, len, now, forceEvenIfDead), one critical section.
\* alive is the set of slots whose Path reports alive(now), sent is the
\* result of Path::send().
sendDirect(forceEvenIfDead, alive, sent) ==
  LET bestp == BestScan(_paths, _numPaths, Eligible(forceEvenIfDead, alive), 0, -1, 0)
  IN /\ UNCHANGED <<clock, envVars, tableVars, stampVars, _lastDirectPathPushSent, rx>>
     /\ IF bestp >= 0
          THEN Observe(<<Call("DATA", "path->send", TRUE, _paths[bestp].path, <<>>)>>, <<sent>>)
          ELSE Observe(<<>>, <<FALSE>>)

\* ---------------------------------------------------- specifications ----
Hops == {0, 1}
FamilyFilters == {-1, AF_INET, AF_INET6}

\* The steps every received() call takes, on the threads T, for packets
\* with the given paths, hops, verbs and trust.
receivedSteps(T, paths, hops, verbs, trust) ==
  \/ \E t \in T, path \in paths, h \in hops, verb \in verbs, trustEstablished \in trust :
       receivedEnter(t, path, h, verb, trustEstablished)
  \/ \E t \in T, better \in BOOLEAN, redirectTo \in {"c4", "c6"} :
       receivedStamp(t, better, redirectTo)
  \/ \E t \in T : receivedAnnounce(t)

\* The steps of received() for a direct packet.
directSteps(T) ==
  \/ \E t \in T : receivedConfirm(t)
  \/ \E t \in T, permitted \in BOOLEAN, flagSlot \in Slots :
       receivedLearn(t, permitted, flagSlot)

\* The steps of received() for a relayed packet of a trusted peer.
pushSteps(T) ==
  \/ \E t \in T : receivedPushCheck(t)
  \/ \E t \in T : \E draws \in Draws(Len(symmetricNatPredictions)) :
       receivedPushSend(t, draws)

\* The path table under one receive thread and the timer thread.
TablePaths == {PathOf("l1", r) : r \in Remotes} \cup {PathOf("l2", "r4a")}

Init == InitIn(BOOLEAN, {<<>>}, {<<>>})

Next ==
  \/ Tick
  \/ receivedSteps({1}, TablePaths, {0}, {"OK", "ECHO"}, {FALSE})
  \/ directSteps({1})
  \/ \E now \in 0 .. clock : clean(now)
  \/ \E scope \in IpScopes : resetWithinScope(scope, clock)

Spec == Init /\ [][Next]_vars

\* Two receive threads on direct OK packets, and the timer thread.
RacePaths == {PathOf("l1", "r4a"), PathOf("l1", "r6a")}

InitRace == InitIn({FALSE}, {<<>>}, {<<>>})

NextRace ==
  \/ Tick
  \/ receivedSteps(Threads, RacePaths, {0}, {"OK"}, {FALSE})
  \/ directSteps(Threads)
  \/ \E now \in 0 .. clock : clean(now)
  \/ \E scope \in IpScopes : resetWithinScope(scope, clock)

SpecRace == InitRace /\ [][NextRace]_vars

\* One receive thread on direct packets of every verb, from a peer that
\* reports its version.
ProbePaths == {PathOf("l1", "r4a"), PathOf("l1", "r6a")}

InitProbe == InitIn(BOOLEAN, {<<>>}, {<<>>})

NextProbe ==
  \/ Tick
  \/ \E v \in RemoteVersions : setRemoteVersion(v)
  \/ receivedSteps({1}, ProbePaths, {0}, Verbs, {FALSE})
  \/ directSteps({1})

SpecProbe == InitProbe /\ [][NextProbe]_vars

\* One receive thread on direct and relayed packets.
RelayPaths == {PathOf("l1", "r4a"), PathOf("l1", "r6a")}

InitRelay == InitIn(BOOLEAN, {<<"c4", "cx">>}, {<<>>})

NextRelay ==
  \/ Tick
  \/ receivedSteps({1}, RelayPaths, Hops, {"OK", "FRAME", "MULTICAST_FRAME"}, BOOLEAN)
  \/ directSteps({1})
  \/ pushSteps({1})

SpecRelay == InitRelay /\ [][NextRelay]_vars

\* Two receive threads on relayed packets: the direct-path pusher.
PushPaths == {PathOf("l1", "r4a")}

InitPush == InitIn(BOOLEAN, {<<>>, <<"c4", "cx">>}, {<<>>, <<"c4", "c6", "cx">>})

NextPush ==
  \/ Tick
  \/ receivedSteps(Threads, PushPaths, {1}, {"ECHO"}, BOOLEAN)
  \/ pushSteps(Threads)

SpecPush == InitPush /\ [][NextPush]_vars

\* One receive thread that builds the table, and the liveness driver.
PingPaths == {PathOf("l1", "r4a"), PathOf("l1", "r6a")}

InitPing == InitIn(BOOLEAN, {<<>>}, {<<>>})

NextPing ==
  \/ Tick
  \/ receivedSteps({1}, PingPaths, {0}, {"OK"}, {FALSE})
  \/ directSteps({1})
  \/ \E now \in 0 .. clock, family \in FamilyFilters, needsHeartbeat \in BOOLEAN :
       doPingAndKeepalive(now, family, needsHeartbeat)

SpecPing == InitPing /\ [][NextPing]_vars

\* One receive thread that builds the table, and a sender.
SendPaths == {PathOf("l1", "r4a"), PathOf("l1", "r6a")}

InitSend == InitIn(BOOLEAN, {<<>>}, {<<>>})

NextSend ==
  \/ Tick
  \/ receivedSteps({1}, SendPaths, {0}, {"OK", "ECHO"}, {FALSE})
  \/ directSteps({1})
  \/ \E forceEvenIfDead \in BOOLEAN, alive \in SUBSET Slots, sent \in BOOLEAN :
       sendDirect(forceEvenIfDead, alive, sent)

SpecSend == InitSend /\ [][NextSend]_vars

\* One receive thread alone: packets are processed one after the other.
\* Address r4a is reached through two local addresses.
PairPaths == {PathOf("l1", "r4a"), PathOf("l2", "r4a"), PathOf("l1", "r4c"),
              PathOf("l1", "r6a")}

InitPair == InitIn(BOOLEAN, {<<>>}, {<<>>})

NextPair ==
  \/ Tick
  \/ receivedSteps({1}, PairPaths, {0}, {"OK", "FRAME"}, {FALSE})
  \/ directSteps({1})

SpecPair == InitPair /\ [][NextPair]_vars

\* One receive thread on direct and relayed packets of every verb, from a
\* peer of any version.
RedirectPaths == {PathOf("l1", "r4a")}

InitRedirect == InitIn(BOOLEAN, {<<>>}, {<<>>})

NextRedirect ==
  \/ Tick
  \/ \E v \in RemoteVersions : setRemoteVersion(v)
  \/ receivedSteps({1}, RedirectPaths, Hops, Verbs, {FALSE})
  \/ directSteps({1})

SpecRedirect == InitRedirect /\ [][NextRedirect]_vars

\* n times the endpoint a.
Run(a, n) == [i \in 1 .. n |-> a]

\* Long lists of direct paths: a run of IPv4 endpoints that leaves a packet
\* empty, begun or one record short of full, an endpoint of another family,
\* a run of IPv6 endpoints, and an IPv4 and another foreign endpoint.
PackLists ==
  {Run("c4", n4) \o <<"cx">> \o Run("c6", n6) \o <<"c4", "cx">> :
     n4 \in {0, 2, 104}, n6 \in 0 .. MaxRun}

\* One receive thread on relayed packets of a trusted peer; the node reports
\* one of the long lists.
InitPack == InitIn({FALSE}, PackLists, {<<>>})

NextPack ==
  \/ Tick
  \/ receivedSteps({1}, PushPaths, {1}, {"ECHO"}, {TRUE})
  \/ pushSteps({1})

SpecPack == InitPack /\ [][NextPack]_vars

\* ------------------------------------------------------------ claims ----
Populated == {p \in Slots : p < _numPaths}

\* C1: no two populated slots of the path table have the same remote
\* address, in every state reachable by received(), clean() and
\* resetWithinScope(), received() running on two threads.
C1_UniqueAddresses ==
  \A p \in Populated, q \in Populated :
    p # q => _paths[p].path.remote # _paths[q].path.remote

\* C2: _numPaths <= ZT_MAX_PEER_NETWORK_PATHS, every slot below _numPaths
\* holds a Path reference and every slot from _numPaths on holds none.
C2_TableWellFormed ==
  /\ _numPaths \in 0 .. ZT_MAX_PEER_NETWORK_PATHS
  /\ \A p \in Slots : (p < _numPaths) <=> (_paths[p].path # NoPath)
  /\ \A p \in Slots : _paths[p].path \in Paths \cup {NoPath}

\* C2 witness: resetWithinScope() has just dropped one slot of a table that
\* learning had filled.
C2_Witness ==
  /\ ret = <<TRUE>>
  /\ Len(out) = 1
  /\ out[1].verb = "HELLO"
  /\ out[1].locked
  /\ _numPaths = ZT_MAX_PEER_NETWORK_PATHS - 1

\* The learn step of a direct OK packet of thread t from a permitted
\* remote address that no populated slot holds.
InTable(a) == \E p \in Populated : _paths[p].path.remote = a

LearnsNewPath(t, flagSlot) ==
  /\ receivedLearn(t, TRUE, flagSlot)
  /\ rx[t].hops = 0
  /\ rx[t].verb = "OK"
  /\ ~InTable(rx[t].path.remote)

SameFamilySlots(a) ==
  {p \in Populated : ss_family(_paths[p].path.remote) = ss_family(a)}

\* Slot s has the lowest score among the slots S.
LowestScoring(s, S) ==
  s \in S /\ \A q \in S : _pathScore(_paths, s) <= _pathScore(_paths, q)

\* After the step slot s holds the path of thread t, stamped with its now.
Installed(t, s) ==
  _paths'[s].path = rx[t].path /\ _paths'[s].lastReceive = rx[t].now

C3_EvictionChoice ==
  [][\A t \in Threads, flagSlot \in Slots :
       (/\ LearnsNewPath(t, flagSlot)
        /\ _numPaths = ZT_MAX_PEER_NETWORK_PATHS
        /\ SameFamilySlots(rx[t].path.remote) # {})
       => /\ _numPaths' = ZT_MAX_PEER_NETWORK_PATHS
          /\ \E s \in Slots :
               /\ LowestScoring(s, SameFamilySlots(rx[t].path.remote))
               /\ Installed(t, s)
               /\ \A q \in Slots \ {s} :
                    /\ _paths'[q].path = _paths[q].path
                    /\ _paths'[q].lastReceive = _paths[q].lastReceive]_vars

C4_EvictionChoice ==
  [][\A t \in Threads, flagSlot \in Slots :
       (/\ LearnsNewPath(t, flagSlot)
        /\ _numPaths = ZT_MAX_PEER_NETWORK_PATHS
        /\ SameFamilySlots(rx[t].path.remote) = {})
       => /\ _numPaths' = ZT_MAX_PEER_NETWORK_PATHS
          /\ \E s \in Slots :
               /\ LowestScoring(s, Slots)
               /\ Installed(t, s)
               /\ \A q \in Slots \ {s} :
                    /\ _paths'[q].path = _paths[q].path
                    /\ _paths'[q].lastReceive = _paths[q].lastReceive]_vars

IsProbe(call) == call.verb \in {"HELLO", "ECHO"}

C6_AppendKeepsPaths ==
  [][\A t \in Threads, flagSlot \in Slots :
       (LearnsNewPath(t, flagSlot) /\ _numPaths < ZT_MAX_PEER_NETWORK_PATHS)
       => /\ _numPaths' = _numPaths + 1
          /\ Installed(t, _numPaths)
          /\ \A q \in Populated :
               /\ _paths'[q].path = _paths[q].path
               /\ _paths'[q].lastReceive = _paths[q].lastReceive
          /\ \A i \in 1 .. Len(out') : ~IsProbe(out'[i])]_vars

\* Thread t takes a step of the received() call it is in.
StepsIn(t) == rx[t].pc # "idle" /\ rx'[t] # rx[t]

\* The probe the version-gated policy asks for on a path.
ProbeVerb ==
  IF remoteVersion[1] >= 5
       /\ <<remoteVersion[2], remoteVersion[3], remoteVersion[4]>> # <<1, 1, 0>>
    THEN "ECHO" ELSE "HELLO"

\* C5: a direct packet whose verb is not OK, from a permitted remote address
\* that is not in the table, leaves the path table unchanged and causes
\* exactly one probe on the arriving path: an ECHO for a peer with proto >= 5
\* and a version other than 1.1.0, a HELLO otherwise.
C5_ProbesUnknownPath ==
  [][\A t \in Threads :
       /\ (StepsIn(t) /\ rx[t].hops = 0 /\ rx[t].verb # "OK"
             /\ ~InTable(rx[t].path.remote))
          => UNCHANGED tableVars
       /\ \A flagSlot \in Slots :
            (/\ receivedLearn(t, TRUE, flagSlot)
             /\ rx[t].hops = 0
             /\ rx[t].verb # "OK"
             /\ ~InTable(rx[t].path.remote))
            => /\ Len(out') = 1
               /\ out'[1].verb = ProbeVerb
               /\ out'[1].local = rx[t].path.local
               /\ out'[1].remote = rx[t].path.remote]_vars

\* C5 witness: a peer of proto 5 and version 1.1.0 has just been probed with
\* a HELLO on the path its FRAME arrived on.
C5_Witness ==
  /\ remoteVersion = <<5, 1, 1, 0>>
  /\ \E t \in Threads :
       /\ rx[t].pc = "announce"
       /\ rx[t].hops = 0
       /\ rx[t].verb = "FRAME"
       /\ ~InTable(rx[t].path.remote)
       /\ out = <<sendHELLO(rx[t].path.local, rx[t].path.remote, FALSE)>>

\* C7: a relayed packet leaves _numPaths and every slot's path, lastReceive
\* and cluster flag as they are; its call stamps _lastReceive and reaches
\* the direct-path pusher only if trustEstablished.
C7_RelayedLeavesTable ==
  [][\A t \in Threads :
       (StepsIn(t) /\ rx[t].hops > 0)
       => /\ UNCHANGED <<tableVars, envVars>>
          /\ (rx[t].pc = "stamp") => (_lastReceive' = rx[t].now)
          /\ (rx'[t].pc \in {"pushCheck", "pushSend"}) => rx[t].trustEstablished
          /\ (rx'[t].pc \in {"confirm", "learn"}) => FALSE]_vars

\* C7 witness: a relayed packet of a trusted peer has just made the pusher
\* send, the table holding a path.
C7_Witness ==
  /\ _numPaths > 0
  /\ ret = <<TRUE>>
  /\ \E t \in Threads :
       /\ rx[t].pc = "announce"
       /\ rx[t].hops > 0
       /\ rx[t].trustEstablished
       /\ _lastDirectPathPushSent = rx[t].now
       /\ Len(out) > 0
       /\ out[1].verb = "PUSH_DIRECT_PATHS"

\* C8: an accepted push is at least ZT_DIRECT_PATH_PUSH_INTERVAL after the
\* previous accepted push: no thread is past the check of line 407 sooner
\* than that after the time _lastDirectPathPushSent records.
C8_PushesSpaced ==
  \A t \in Threads :
    (rx[t].pc = "pushSend")
    => U64Sub(rx[t].now, _lastDirectPathPushSent) >= ZT_DIRECT_PATH_PUSH_INTERVAL

\* C8, for one call alone: the check of a push that starts less than the
\* interval after the recorded one returns false, sends nothing and leaves
\* _lastDirectPathPushSent.
C8_RejectsEarlyPush ==
  [][\A t \in Threads :
       (/\ receivedPushCheck(t)
        /\ U64Sub(rx[t].now, _lastDirectPathPushSent) < ZT_DIRECT_PATH_PUSH_INTERVAL)
       => /\ ret' = <<FALSE>>
          /\ out' = <<>>
          /\ rx'[t].pc = "announce"
          /\ UNCHANGED _lastDirectPathPushSent]_vars

\* C9: with a cluster context every call of the pusher returns false, sends
\* nothing and leaves _lastDirectPathPushSent, however long ago the last push.
C9_ClusterDisablesPush ==
  [][cluster =>
       \A t \in Threads :
         /\ rx'[t].pc # "pushSend"
         /\ UNCHANGED _lastDirectPathPushSent
         /\ receivedPushCheck(t)
            => /\ ret' = <<FALSE>>
               /\ out' = <<>>
               /\ rx'[t].pc = "announce"]_vars

\* C9 witness: in a cluster, the pusher has just returned false for a packet
\* that arrived the push interval after the last push.
C9_Witness ==
  /\ cluster
  /\ ret = <<FALSE>>
  /\ out = <<>>
  /\ \E t \in Threads :
       /\ rx[t].pc = "announce"
       /\ rx[t].hops > 0
       /\ rx[t].trustEstablished
       /\ U64Sub(rx[t].now, _lastDirectPathPushSent) >= ZT_DIRECT_PATH_PUSH_INTERVAL

HighestScoring(b, S) ==
  b \in S /\ \A q \in S : _pathScore(_paths, b) >= _pathScore(_paths, q)

\* C10: doPingAndKeepalive(now, family) returns false and sends nothing when
\* no slot matches the family; otherwise it returns true and, for a highest-
\* scoring matching slot, sends one HELLO if now - lastReceive (uint64) is at
\* least ZT_PEER_PING_PERIOD, else one keepalive if the path needs a
\* heartbeat, else nothing. It never changes the path table.
C10_PingOrKeepalive ==
  [][\A now \in Times, family \in FamilyFilters, needsHeartbeat \in BOOLEAN :
       doPingAndKeepalive(now, family, needsHeartbeat)
       => LET matching == {p \in Populated :
                             family < 0 \/ ss_family(_paths[p].path.remote) = family}
          IN /\ UNCHANGED tableVars
             /\ Len(out') <= 1
             /\ (matching = {}) => (ret' = <<FALSE>> /\ out' = <<>>)
             /\ (matching # {}) =>
                  /\ ret' = <<TRUE>>
                  /\ \E b \in matching :
                       /\ HighestScoring(b, matching)
                       /\ IF (now - _paths[b].lastReceive) % WrapModulus
                               >= ZT_PEER_PING_PERIOD
                            THEN /\ Len(out') = 1
                                 /\ out'[1].verb = "HELLO"
                                 /\ out'[1].local = _paths[b].path.local
                                 /\ out'[1].remote = _paths[b].path.remote
                            ELSE IF needsHeartbeat
                                   THEN /\ Len(out') = 1
                                        /\ out'[1].verb = "NAT_KEEPALIVE"
                                        /\ out'[1].local = _paths[b].path.local
                                        /\ out'[1].remote = _paths[b].path.remote
                                   ELSE out' = <<>>]_vars

\* C10 witness: the liveness driver has just sent a keepalive, and no HELLO,
\* on one of two paths.
C10_Witness ==
  /\ _numPaths = 2
  /\ ret = <<TRUE>>
  /\ Len(out) = 1
  /\ out[1].verb = "NAT_KEEPALIVE"

\* C11: sendDirect(force) calls send on the highest-scoring slot among the
\* alive slots (among all slots when force is set), the one of highest index
\* when scores tie, and returns what send returns; with force on a non-empty
\* table a slot is always chosen; with no eligible slot it returns false and
\* calls send on no path.
C11_SendsOnBest ==
  [][\A forceEvenIfDead \in BOOLEAN, alive \in SUBSET Slots, sent \in BOOLEAN :
       sendDirect(forceEvenIfDead, alive, sent)
       => LET among == IF forceEvenIfDead THEN Populated ELSE Populated \cap alive
          IN /\ UNCHANGED tableVars
             /\ (forceEvenIfDead /\ _numPaths > 0) => Len(out') = 1
             /\ (among = {}) => (ret' = <<FALSE>> /\ out' = <<>>)
             /\ (among # {}) =>
                  \E b \in among :
                    /\ HighestScoring(b, among)
                    /\ \A q \in among :
                         (_pathScore(_paths, q) = _pathScore(_paths, b)) => q <= b
                    /\ ret' = <<sent>>
                    /\ Len(out') = 1
                    /\ out'[1].via = "path->send"
                    /\ out'[1].local = _paths[b].path.local
                    /\ out'[1].remote = _paths[b].path.remote]_vars

\* C11 witness: a forced send has just gone out on the second of two slots
\* whose score is 0, none of them alive.
C11_Witness ==
  /\ _numPaths = 2
  /\ _pathScore(_paths, 0) = 0
  /\ _pathScore(_paths, 1) = 0
  /\ ret = <<TRUE>>
  /\ Len(out) = 1
  /\ out[1].verb = "DATA"
  /\ out[1].remote = _paths[1].path.remote

\* The table under clean() and resetWithinScope(): one receive thread, the
\* timer thread, and a remote address of each ip scope.
CleanPaths == {PathOf("l1", "r4b"), PathOf("l1", "r6a")}

InitClean == InitIn(BOOLEAN, {<<>>}, {<<>>})

NextClean ==
  \/ Tick
  \/ receivedSteps({1}, CleanPaths, {0}, {"OK", "ECHO"}, {FALSE})
  \/ directSteps({1})
  \/ \E now \in 0 .. clock : clean(now)
  \/ \E scope \in IpScopes : resetWithinScope(scope, clock)

SpecClean == InitClean /\ [][NextClean]_vars


\* The populated slots, in table order.
TableSeq == [i \in 1 .. _numPaths |-> _paths[i - 1]]

\* The table holds exactly the slots of kept, in that order, before and at
\* _numPaths, and no Path reference from there on.
TableIs(paths, np, kept) ==
  /\ np = Len(kept)
  /\ \A p \in Slots : IF p < Len(kept) THEN paths[p] = kept[p + 1]
                                       ELSE paths[p].path = NoPath

\* C12: after clean(now) the table holds exactly the slots that had
\* now - lastReceive (uint64) <= ZT_PEER_PATH_EXPIRATION, in their order and
\* with their path, lastReceive and cluster flag; _numPaths is their number
\* and the slots from _numPaths on are empty.
C12_CleanKeepsFresh ==
  [][\A now \in Times :
       clean(now)
       => LET Fresh(e) == (now - e.lastReceive) % WrapModulus <= ZT_PEER_PATH_EXPIRATION
          IN TableIs(_paths', _numPaths', SelectSeq(TableSeq, Fresh))]_vars

\* C12 witness: clean() has dropped the first of two slots and moved the
\* second, still fresh, down to slot 0.
C12_Witness ==
  /\ _numPaths = 1
  /\ ret = <<>>
  /\ _paths[1].path = NoPath
  /\ _paths[1].lastReceive > 0
  /\ _paths[0].lastReceive = _paths[1].lastReceive
  /\ (clock - _paths[0].lastReceive) % WrapModulus <= ZT_PEER_PATH_EXPIRATION

OneSlotFor(paths, np, path, now) ==
  /\ Cardinality(MatchingSlots(paths, np, path.remote)) = 1
  /\ \A p \in MatchingSlots(paths, np, path.remote) :
       paths[p].path = path /\ paths[p].lastReceive = now

\* C14: of two direct packets from one remote address processed one after
\* the other, the first leaves the address in one slot if it is a permitted
\* OK or the address was in the table; the table stays as it is until the
\* second is looked up; the second then leaves exactly one slot for the
\* address, with its own time and Path, and leaves _numPaths.
C14_SecondPacketConfirms ==
  [][/\ (\A t \in Threads : rx[t].pc \notin {"confirm", "learn"})
        => UNCHANGED tableVars
     /\ \A t \in Threads :
       /\ \A flagSlot \in Slots :
            (receivedLearn(t, TRUE, flagSlot) /\ rx[t].verb = "OK")
            => OneSlotFor(_paths', _numPaths', rx[t].path, rx[t].now)
       /\ (receivedConfirm(t) /\ InTable(rx[t].path.remote))
          => /\ OneSlotFor(_paths', _numPaths', rx[t].path, rx[t].now)
             /\ _numPaths' = _numPaths
             /\ rx'[t].pc = "announce"]_vars

\* C14 witness: a FRAME from r4a through local address l2 has just been
\* confirmed at a later time than the peer's other path was, and the one
\* slot of r4a holds that Path and that time.
C14_Witness ==
  \E t \in Threads :
    /\ rx[t].pc = "announce"
    /\ rx[t].hops = 0
    /\ rx[t].verb = "FRAME"
    /\ rx[t].pathIsConfirmed
    /\ rx[t].path = PathOf("l2", "r4a")
    /\ rx[t].now > 0
    /\ _numPaths = 2
    /\ OneSlotFor(_paths, _numPaths, rx[t].path, rx[t].now)

\* No slot's lastReceive is lower after the step than the lastReceive the
\* same remote address had in the table before it.
SlotsNotOlder ==
  \A p \in Populated, q \in Slots :
    (q < _numPaths' /\ _paths'[q].path.remote = _paths[p].path.remote)
    => _paths'[q].lastReceive >= _paths[p].lastReceive

\* C15: no step decreases the peer's _lastReceive, nor the lastReceive of a
\* remote address that stays in the table, received() running on two threads
\* that each read the clock before they write.
C15_LastReceiveMonotone ==
  [][_lastReceive' >= _lastReceive /\ SlotsNotOlder]_vars

\* C15, for the slots alone.
C15_SlotsMonotone == [][SlotsNotOlder]_vars

\* C16: a call made while the caller holds _paths_m is a Path::send; the
\* node's packet sink, the networks and the cluster are not called with the
\* lock held.
C16_NoForeignCallUnderLock ==
  \A i \in 1 .. Len(out) : out[i].locked => out[i].via = "path->send"

\* The verbs a cluster redirect never answers.
NoRedirectVerbs == {"OK", "ERROR", "RENDEZVOUS", "PUSH_DIRECT_PATHS"}

\* call is the redirect to endpoint redirectTo the peer's version asks for,
\* sent on path.
IsRedirect(call, path, redirectTo) ==
  /\ call.via = "path->send"
  /\ call.local = path.local
  /\ call.remote = path.remote
  /\ call.body.records[1].address = redirectTo
  /\ IF remoteVersion[1] >= 5
       THEN /\ call.verb = "PUSH_DIRECT_PATHS"
            /\ call.body.count = 1
            /\ Len(call.body.records) = 1
            /\ call.body.records[1].flags = ZT_PUSH_DIRECT_PATHS_FLAG_CLUSTER_REDIRECT
       ELSE call.verb = "RENDEZVOUS"

\* C17: with a cluster context, a direct packet for which the cluster has a
\* better endpoint is answered with a redirect iff its verb is none of OK,
\* ERROR, RENDEZVOUS, PUSH_DIRECT_PATHS: then exactly one redirect goes out
\* on the arriving path (PUSH_DIRECT_PATHS with one record flagged
\* CLUSTER_REDIRECT for proto >= 5, else RENDEZVOUS) and the slot of the
\* packet's remote address, if there is one, ends flagged suboptimal. For
\* the four verbs, relayed packets and no cluster, no redirect is sent.
C17_ClusterRedirect ==
  [][\A t \in Threads :
       /\ \A better \in BOOLEAN, redirectTo \in {"c4", "c6"} :
            receivedStamp(t, better, redirectTo)
            => IF cluster /\ rx[t].hops = 0 /\ better /\ rx[t].verb \notin NoRedirectVerbs
                 THEN /\ Len(out') = 1
                      /\ IsRedirect(out'[1], rx[t].path, redirectTo)
                      /\ rx'[t].suboptimalPath
                 ELSE /\ out' = <<>>
                      /\ ~rx'[t].suboptimalPath
       /\ (StepsIn(t) /\ rx[t].pc # "stamp")
          => /\ \A i \in 1 .. Len(out') : out'[i].verb \notin {"PUSH_DIRECT_PATHS", "RENDEZVOUS"}
             /\ rx'[t].pc # "idle" => rx'[t].suboptimalPath = rx[t].suboptimalPath
       /\ (StepsIn(t) /\ rx[t].suboptimalPath /\ rx'[t].pc = "announce")
          => \A p \in MatchingSlots(_paths', _numPaths', rx[t].path.remote) :
               _paths'[p].localClusterSuboptimal]_vars

\* C17 witness: a FRAME from a peer of proto 5, whose address is in the
\* table and not flagged, has just been answered with a redirect.
C17_Witness ==
  \E t \in Threads :
    /\ cluster
    /\ remoteVersion[1] >= 5
    /\ rx[t].pc = "confirm"
    /\ rx[t].verb = "FRAME"
    /\ rx[t].suboptimalPath
    /\ Len(out) = 1
    /\ out[1].verb = "PUSH_DIRECT_PATHS"
    /\ \E p \in MatchingSlots(_paths, _numPaths, rx[t].path.remote) :
         ~_paths[p].localClusterSuboptimal

\* The addresses of the records of the packets calls, in send order.
RECURSIVE RecordAddresses(_)
RecordAddresses(calls) ==
  IF calls = <<>> THEN <<>>
  ELSE [i \in 1 .. Len(calls[1].body.records) |-> calls[1].body.records[i].address]
         \o RecordAddresses(Tail(calls))

\* The bytes of records: flags, extensions, address type and length byte,
\* then as many bytes of ip and port as the length byte says.
RECURSIVE BytesOfLengths(_, _)
BytesOfLengths(lengths, records) ==
  IF lengths = {} THEN 0
  ELSE LET l == CHOOSE x \in lengths : TRUE
       IN (5 + l) * Cardinality({i \in 1 .. Len(records) : records[i].length = l})
            + BytesOfLengths(lengths \ {l}, records)

RecordBytes(records) ==
  BytesOfLengths({records[i].length : i \in 1 .. Len(records)}, records)

\* The size of a PUSH_DIRECT_PATHS packet: header, u16 count, records.
PacketBytes(call) == ZT_PACKET_IDX_PAYLOAD + 2 + RecordBytes(call.body.records)

\* C18: the packets of a push are each at most 1200 bytes, carry at least
\* one record and a count equal to their number of records; their records
\* in send order are the IPv4 and IPv6 candidates in their order, each once,
\* with the address type of their family; other families give no record.
C18_PacksEveryIpCandidate ==
  [][\A t \in Threads :
       (rx[t].pc = "pushSend" /\ rx'[t].pc = "announce" /\ symmetricNatPredictions = <<>>)
       => LET IsIp(a) == ss_family(a) \in {AF_INET, AF_INET6}
          IN /\ RecordAddresses(out') = SelectSeq(directPaths, IsIp)
             /\ \A i \in 1 .. Len(out') :
                  /\ out'[i].verb = "PUSH_DIRECT_PATHS"
                  /\ PacketBytes(out'[i]) <= 1200
                  /\ Len(out'[i].body.records) >= 1
                  /\ out'[i].body.count = Len(out'[i].body.records)
                  /\ \A j \in 1 .. Len(out'[i].body.records) :
                       LET r == out'[i].body.records[j]
                       IN IF ss_family(r.address) = AF_INET
                            THEN r.addressType = 4 /\ r.length = 6
                            ELSE r.addressType = 6 /\ r.length = 18]_vars

\* C18 witness: a push has just gone out in three packets, the first filled
\* to 1197 bytes by 104 IPv4 records and one IPv6 record, the second full of
\* 50 IPv6 records.
C18_Witness ==
  /\ ret = <<TRUE>>
  /\ Len(out) = 3
  /\ out[1].body.count = 105
  /\ PacketBytes(out[1]) = 1197
  /\ out[2].body.count = 50
  /\ \E t \in Threads : rx[t].pc = "announce" /\ rx[t].hops > 0

\* C19: an accepted push gathers the node's direct paths, then at most
\* ZT_PUSH_DIRECT_PATHS_MAX_PER_SCOPE_AND_FAMILY predictions, none of them
\* equal to an endpoint gathered before it, with one draw per prediction at
\* most; if the list is empty the call returns false and sends nothing, the
\* time of the push being recorded all the same.
C19_GathersDedupedPredictions ==
  [][\A t \in Threads :
       \A draws \in Draws(Len(symmetricNatPredictions)) :
         receivedPushSend(t, draws)
         => LET g == GatherPathsToPush(directPaths, symmetricNatPredictions, draws)
                n == Len(directPaths)
            IN /\ Len(g) >= n
               /\ SubSeq(g, 1, n) = directPaths
               /\ Len(g) - n <= ZT_PUSH_DIRECT_PATHS_MAX_PER_SCOPE_AND_FAMILY
               /\ Len(g) - n <= Len(draws)
               /\ \A i \in (n + 1) .. Len(g) :
                    /\ \E k \in 1 .. Len(draws) : g[i] = symmetricNatPredictions[draws[k] + 1]
                    /\ \A j \in 1 .. (i - 1) : g[j] # g[i]
               /\ _lastDirectPathPushSent' = rx[t].now
               /\ (g = <<>>) => (ret' = <<FALSE>> /\ out' = <<>>)
               /\ (g # <<>>) => (ret' = <<TRUE>>)]_vars

\* C19 witness: a push has just sent the node's one IP endpoint and no
\* prediction, each of the three draws having hit a prediction the node
\* reports itself.
C19_Witness ==
  /\ directPaths = <<"c4", "cx">>
  /\ symmetricNatPredictions = <<"c4", "c6", "cx">>
  /\ ret = <<TRUE>>
  /\ Len(out) = 1
  /\ out[1].body.count = 1
  /\ \E t \in Threads :
       rx[t].pc = "announce" /\ rx[t].hops > 0 /\ _lastDirectPathPushSent = rx[t].now

\* C20: clean(now) keeps every slot whose lastReceive is less than
\* ZT_PEER_PATH_EXPIRATION before now, or after now (stamped by a received()
\* call that read the clock later than the caller of clean() did).
C20_CleanKeepsNewer ==
  [][\A now \in Times :
       clean(now)
       => \A p \in Populated :
            (\/ _paths[p].lastReceive > now
             \/ now - _paths[p].lastReceive < ZT_PEER_PATH_EXPIRATION)
            => \E q \in Slots : q < _numPaths' /\ _paths'[q] = _paths[p]]_vars

====
